---------------------------- MODULE Spec2Model ----------------------------
(***************************************************************************)
(* Protein Store API (src/main.py, src/schemas.py): the request handlers   *)
(* over the "product" and "order" collections.  Strings that are searched  *)
(* or decoded are sequences of one-character strings; an Optional field is *)
(* a sequence of length 0 (None) or 1 (the value).  Prices are in cents.   *)
(***************************************************************************)
EXTENDS Integers, Sequences, FiniteSets, TLC

(* ------------------------------ bounds -------------------------------- *)
\* number of products accepted through POST /api/products in one behaviour
MaxCreates == 1
\* number of orders accepted through POST /api/orders in one behaviour
MaxOrders == 1
\* number of request workers that may run seed_products at the same time
NumWorkers == 2

Workers == 1..NumWorkers

(* ------------------------------ helpers ------------------------------- *)
None == <<>>
Some(v) == <<v>>

Take(s, n) == IF n <= 0 THEN <<>> ELSE SubSeq(s, 1, IF n < Len(s) THEN n ELSE Len(s))

Range(s) == {s[i] : i \in 1..Len(s)}

(* --------------------------- sample products -------------------------- *)
Sample1 ==
  [title |-> <<"P","r","o","t","e","i","n"," ","P","i","z","z","a"," ","(","1","0","0",
               "g"," ","P","r","o","t","e","i","n",")">>,
   description |-> << <<"S","t","o","n","e","-","b","a","k","e","d"," ","h","i","g","h","-","p",
                      "r","o","t","e","i","n"," ","p","i","z","z","a"," ","w","i","t","h"," ","1",
                      "0","0","g"," ","p","r","o","t","e","i","n"," ","p","e","r"," ","p","i","e",
                      "."," ","C","r","i","s","p","y"," ","c","r","u","s","t",","," ","l","o","w",
                      "-","c","a","r","b",".">> >>,
   price |-> 1499,
   category |-> "food",
   in_stock |-> TRUE,
   image |-> <<"https://images.unsplash.com/photo-1542281286-9e0a16bb7366">>,
   protein_grams |-> <<100>>,
   calories |-> <<980>>,
   tags |-> << << <<"p","i","z","z","a">>,
                   <<"h","i","g","h","-","p","r","o","t","e","i","n">>,
                   <<"m","e","a","l">> >> >>]

Sample2 ==
  [title |-> <<"W","h","e","y"," ","P","r","o","t","e","i","n"," ","P","o","w","d","e",
               "r"," ","(","2","l","b",")">>,
   description |-> << <<"U","l","t","r","a","-","f","i","l","t","e","r","e","d"," ","w","h","e",
                      "y"," ","w","i","t","h"," ","2","4","g"," ","p","r","o","t","e","i","n"," ",
                      "p","e","r"," ","s","c","o","o","p","."," ","M","i","x","e","s"," ","i","n",
                      "s","t","a","n","t","l","y",".">> >>,
   price |-> 2999,
   category |-> "powder",
   in_stock |-> TRUE,
   image |-> <<"https://images.unsplash.com/photo-1517673400267-0251440c45dc">>,
   protein_grams |-> <<24>>,
   calories |-> <<120>>,
   tags |-> << << <<"p","o","w","d","e","r">>,
                   <<"w","h","e","y">>,
                   <<"s","h","a","k","e">> >> >>]

Sample3 ==
  [title |-> <<"V","e","g","a","n"," ","P","r","o","t","e","i","n"," ","B","l","e","n",
               "d"," ","(","2","l","b",")">>,
   description |-> << <<"P","e","a"," ","+"," ","r","i","c","e"," ","p","r","o","t","e","i","n",
                      " ","f","o","r"," ","a"," ","c","o","m","p","l","e","t","e"," ","a","m","i",
                      "n","o"," ","a","c","i","d"," ","p","r","o","f","i","l","e",".">> >>,
   price |-> 3299,
   category |-> "powder",
   in_stock |-> TRUE,
   image |-> <<"https://images.unsplash.com/photo-1517957754645-708b06a1bbb2">>,
   protein_grams |-> <<22>>,
   calories |-> <<110>>,
   tags |-> << << <<"v","e","g","a","n">>,
                   <<"p","o","w","d","e","r">> >> >>]

Sample4 ==
  [title |-> <<"P","r","o","t","e","i","n"," ","C","o","o","k","i","e","s"," ","(","1",
               "2","-","p","a","c","k",")">>,
   description |-> << <<"S","o","f","t","-","b","a","k","e","d"," ","c","o","o","k","i","e","s",
                      " ","w","i","t","h"," ","1","6","g"," ","p","r","o","t","e","i","n"," ","p",
                      "e","r"," ","c","o","o","k","i","e",".">> >>,
   price |-> 1999,
   category |-> "snack",
   in_stock |-> TRUE,
   image |-> <<"https://images.unsplash.com/photo-1547414362-527f27b7b797">>,
   protein_grams |-> <<16>>,
   calories |-> <<220>>,
   tags |-> << << <<"s","n","a","c","k">>,
                   <<"c","o","o","k","i","e">> >> >>]

sample_products == <<Sample1, Sample2, Sample3, Sample4>>

NumSamples == Len(sample_products)

(* ----------------------- bson.ObjectId <-> str ------------------------ *)
\* an ObjectId is 12 bytes; its string form is 24 hexadecimal characters
OidHexLen == 24

HexDigits == <<"0","1","2","3","4","5","6","7","8","9","a","b","c","d","e","f">>

UpperHex == [c \in {"A","B","C","D","E","F"} |->
               CASE c = "A" -> "a" [] c = "B" -> "b" [] c = "C" -> "c"
                 [] c = "D" -> "d" [] c = "E" -> "e" [] c = "F" -> "f"]

IsHexChar(c) == c \in Range(HexDigits) \/ c \in DOMAIN UpperHex

HexVal(c) ==
  LET lc == IF c \in DOMAIN UpperHex THEN UpperHex[c] ELSE c
  IN  (CHOOSE i \in 1..16 : HexDigits[i] = lc) - 1

\* ObjectId.is_valid for a str argument
ObjectIdValid(s) == Len(s) = OidHexLen /\ \A i \in 1..Len(s) : IsHexChar(s[i])

\* ObjectId(product_id): the 24 nibbles, or the InvalidId exception
ObjectId(s) ==
  IF ObjectIdValid(s)
    THEN [ok |-> TRUE, oid |-> [i \in 1..OidHexLen |-> HexVal(s[i])]]
    ELSE [ok |-> FALSE, oid |-> <<>>]

\* str(oid): lower-case hexadecimal
OidStr(oid) == [i \in 1..Len(oid) |-> HexDigits[oid[i] + 1]]

(* ------------------------- schemas (pydantic) ------------------------- *)
\* Product: price >= 0, protein_grams >= 0, calories >= 0 (Optional ints)
ProductValid(p) ==
  /\ p.price >= 0
  /\ (p.protein_grams # None => p.protein_grams[1] >= 0)
  /\ (p.calories # None => p.calories[1] >= 0)

\* OrderItem with the bound of quantity taken as 0
OrderItemValid_quantity0(it) == it.price >= 0 /\ it.quantity >= 0

\* OrderItem: price >= 0, quantity >= 1
OrderItemValid(it) == it.price >= 0 /\ it.quantity >= 1

\* Order: every item valid, subtotal, tax, total >= 0
OrderValid(o) ==
  /\ \A i \in 1..Len(o.items) : OrderItemValid(o.items[i])
  /\ o.subtotal >= 0
  /\ o.tax >= 0
  /\ o.total >= 0

(* ------------------- the store: database.py / MongoDB ------------------ *)
Uppers == <<"A","B","C","D","E","F","G","H","I","J","K","L","M",
            "N","O","P","Q","R","S","T","U","V","W","X","Y","Z">>
Lowers == <<"a","b","c","d","e","f","g","h","i","j","k","l","m",
            "n","o","p","q","r","s","t","u","v","w","x","y","z">>

Lower(c) ==
  IF \E i \in 1..26 : Uppers[i] = c
    THEN Lowers[CHOOSE i \in 1..26 : Uppers[i] = c]
    ELSE c

\* one pattern character against one text character, option "i";
\* "." is the regular-expression wildcard, every other character of the
\* patterns used here is a literal
RegexCharMatch(pc_, tc) == (pc_ = "." /\ tc # "\n") \/ Lower(pc_) = Lower(tc)

\* {"$regex": pat, "$options": "i"} on a string: an unanchored search
RegexSearch(pat, text) ==
  \E s \in 0..(Len(text) - Len(pat)) :
     \A j \in 1..Len(pat) : RegexCharMatch(pat[j], text[s + j])

\* $regex on a field: a string matches by search, an array when one of its
\* elements does, null never
RegexField(pat, field, isArray) ==
  /\ field # None
  /\ IF isArray
       THEN \E k \in 1..Len(field[1]) : RegexSearch(pat, field[1][k])
       ELSE RegexSearch(pat, field[1])

\* the filter documents built by the handlers: an exact match on category,
\* an exact match on _id, and the $or of three $regex conditions
EmptyFilter == [category |-> None, or |-> None, _id |-> None]

MatchesFilter(d, f) ==
  /\ (f.category # None => d.category = f.category[1])
  /\ (f["_id"] # None => d["_id"] = f["_id"][1])
  /\ (f.or # None =>
        \/ RegexSearch(f.or[1], d.title)
        \/ RegexField(f.or[1], d.description, FALSE)
        \/ RegexField(f.or[1], d.tags, TRUE))

\* get_documents(collection_name, filter_dict, limit): at most limit
\* matching documents, in insertion order
get_documents(coll, f, limit) ==
  LET Test(d) == MatchesFilter(d, f)
  IN  Take(SelectSeq(coll, Test), limit)

\* the document create_document stores for a validated model
StoredDoc(p, oid) == [x \in (DOMAIN p) \cup {"_id"} |-> IF x = "_id" THEN oid ELSE p[x]]

\* d["id"] = str(d.pop("_id"))
WithId(d) ==
  [x \in ((DOMAIN d) \ {"_id"}) \cup {"id"} |-> IF x = "id" THEN OidStr(d["_id"]) ELSE d[x]]

\* the fields of a returned document without its identifier
Fields(d) == [x \in (DOMAIN d) \ {"id", "_id"} |-> d[x]]

\* the identifier the store assigns to its n-th insert: a fixed
\* timestamp/process part and a 3-byte counter
OidCounterLen == 6

NewOid(n) ==
  [i \in 1..OidHexLen |->
     IF i <= OidHexLen - OidCounterLen THEN 10
     ELSE IF i = OidHexLen THEN n % 16
     ELSE IF i = OidHexLen - 1 THEN (n \div 16) % 16
     ELSE 0]

(* --------------------------- request inputs --------------------------- *)
BaseProduct ==
  [title |-> <<"B","a","r">>, description |-> None, price |-> 0,
   category |-> "snack", in_stock |-> TRUE, image |-> None,
   protein_grams |-> None, calories |-> None, tags |-> None]

ProductInputs ==
  { BaseProduct,
    [BaseProduct EXCEPT !.title = <<"W","H","E","Y"," ","m","i","x">>,
                        !.category = "", !.price = 1,
                        !.protein_grams = Some(0),
                        !.tags = Some(<< <<"x">> >>)],
    [BaseProduct EXCEPT !.price = -1],
    [BaseProduct EXCEPT !.protein_grams = Some(-1)],
    [BaseProduct EXCEPT !.calories = Some(-1)] }

BaseItem ==
  [product_id |-> OidStr(NewOid(1)), title |-> <<"B","a","r">>,
   price |-> 0, quantity |-> 1]

BaseOrder ==
  [customer_name |-> "Ann", customer_email |-> "ann@example.com",
   customer_address |-> "1 Main St", items |-> <<BaseItem>>,
   subtotal |-> 0, tax |-> 0, total |-> 0, status |-> "pending"]

OrderInputs ==
  { BaseOrder,
    [BaseOrder EXCEPT !.items = <<BaseItem, [BaseItem EXCEPT !.quantity = 0]>>],
    [BaseOrder EXCEPT !.items = <<[BaseItem EXCEPT !.price = -1], BaseItem>>],
    [BaseOrder EXCEPT !.subtotal = -1],
    [BaseOrder EXCEPT !.tax = -1],
    [BaseOrder EXCEPT !.total = -1] }

\* limit: int = 50
DefaultLimit == 50

CategoryInputs == {None, Some(""), Some("powder"), Some("snack")}

TermInputs ==
  {None, Some(<<>>), Some(<<"w","h","e","y">>), Some(<<"W","H","E","Y">>),
   Some(<<"c","o","o","k","i","e">>), Some(<<".">>)}

LimitInputs == {0, 1, 2, DefaultLimit}

UpperStr(s) ==
  [i \in 1..Len(s) |->
     IF \E k \in 1..26 : Lowers[k] = s[i]
       THEN Uppers[CHOOSE k \in 1..26 : Lowers[k] = s[i]]
       ELSE s[i]]

MalformedIds ==
  { <<"n","o","t","-","a","-","v","a","l","i","d","-","i","d">>,
    SubSeq(OidStr(NewOid(1)), 1, OidHexLen - 1),
    [OidStr(NewOid(1)) EXCEPT ![OidHexLen] = "g"] }

(* -------------------------------- state ------------------------------- *)
VARIABLES
  products,   \* the "product" collection, in insertion order
  orders,     \* the "order" collection, in insertion order
  nextId,     \* counter of the store's identifier generator
  pc,         \* per worker: "idle", or "insert" inside seed_products' loop
  idx,        \* per worker: index of the sample the loop inserts next
  inserted,   \* per worker: number of samples its seed calls have inserted
  req,        \* the request handled by the latest step
  resp,       \* the latest response sent
  seedRun     \* run of consecutive successful seed calls just completed

vars == <<products, orders, nextId, pc, idx, inserted, req, resp, seedRun>>

NoReq ==
  [op |-> "none", worker |-> 0, product |-> None, order |-> None,
   category |-> None, q |-> None, limit |-> 0, product_id |-> <<>>]

Response(status, detail, id, items) ==
  [status |-> status, detail |-> detail, id |-> id, items |-> items]

NoResponse == Response(0, "", <<>>, <<>>)

NoRun == [n |-> 0, first |-> 0]

Init ==
  /\ products = <<>>
  /\ orders = <<>>
  /\ nextId = 1
  /\ pc = [t \in Workers |-> "idle"]
  /\ idx = [t \in Workers |-> 0]
  /\ inserted = [t \in Workers |-> 0]
  /\ req = NoReq
  /\ resp = NoResponse
  /\ seedRun = NoRun

RECURSIVE SumOver(_, _)
SumOver(f, S) ==
  IF S = {} THEN 0
  ELSE LET t == CHOOSE x \in S : TRUE IN f[t] + SumOver(f, S \ {t})

\* products stored through POST /api/products
Created == Len(products) - SumOver(inserted, Workers)

AllIdle == \A t \in Workers : pc[t] = "idle"

(* ------------------------------ handlers ------------------------------ *)
\* create_document(collection_name, data): insert, return the new identifier
create_document(coll, data, n) == Append(coll, StoredDoc(data, NewOid(n)))

StorageError == Response(500, "StorageUnavailable", <<>>, <<>>)

\* a body that fails model validation never reaches the handler
Unprocessable == Response(422, "ValidationError", <<>>, <<>>)

\* POST /api/products
CreateProduct ==
  /\ \E product \in ProductInputs, ok \in BOOLEAN :
       /\ req' = [NoReq EXCEPT !.op = "create_product", !.product = Some(product)]
       /\ \/ /\ ~ProductValid(product)
             /\ resp' = Unprocessable
             /\ UNCHANGED <<products, nextId>>
          \/ /\ ProductValid(product) /\ ~ok
             /\ resp' = StorageError
             /\ UNCHANGED <<products, nextId>>
          \/ /\ ProductValid(product) /\ ok /\ Created < MaxCreates
             /\ products' = create_document(products, product, nextId)
             /\ nextId' = nextId + 1
             /\ resp' = Response(200, "", OidStr(NewOid(nextId)), <<>>)
  /\ seedRun' = NoRun
  /\ UNCHANGED <<orders, pc, idx, inserted>>

\* POST /api/orders
CreateOrder ==
  /\ \E order \in OrderInputs, ok \in BOOLEAN :
       /\ req' = [NoReq EXCEPT !.op = "create_order", !.order = Some(order)]
       /\ \/ /\ ~OrderValid(order)
             /\ resp' = Unprocessable
             /\ UNCHANGED <<orders, nextId>>
          \/ /\ OrderValid(order) /\ ~ok
             /\ resp' = StorageError
             /\ UNCHANGED <<orders, nextId>>
          \/ /\ OrderValid(order) /\ ok /\ Len(orders) < MaxOrders
             /\ orders' = create_document(orders, order, nextId)
             /\ nextId' = nextId + 1
             /\ resp' = Response(200, "", OidStr(NewOid(nextId)), <<>>)
  /\ seedRun' = NoRun
  /\ UNCHANGED <<products, pc, idx, inserted>>

\* filter_dict of list_products: "if category:" and "if q:" test truthiness
list_filter(category, q) ==
  [category |-> IF category # None /\ category[1] # "" THEN category ELSE None,
   or |-> IF q # None /\ q[1] # <<>> THEN q ELSE None,
   _id |-> None]

\* the listing with the cursor limit off by one
list_products_limit1(coll, category, q, limit) ==
  LET docs == get_documents(coll, list_filter(category, q), limit + 1)
  IN  [i \in 1..Len(docs) |-> WithId(docs[i])]

\* the items of GET /api/products
list_products(coll, category, q, limit) ==
  LET docs == get_documents(coll, list_filter(category, q), limit)
  IN  [i \in 1..Len(docs) |-> WithId(docs[i])]

ListProducts ==
  /\ \E category \in CategoryInputs, q \in TermInputs,
        limit \in LimitInputs, ok \in BOOLEAN :
       /\ req' = [NoReq EXCEPT !.op = "list_products", !.category = category,
                               !.q = q, !.limit = limit]
       /\ resp' = IF ok
                    THEN Response(200, "", <<>>, list_products(products, category, q, limit))
                    ELSE StorageError
  /\ seedRun' = NoRun
  /\ UNCHANGED <<products, orders, nextId, pc, idx, inserted>>

\* the lookup with the _id condition left out of the filter
get_product_nofilter(coll, product_id, ok) ==
  LET o == ObjectId(product_id)
      docs == get_documents(coll, EmptyFilter, 1)
  IN  IF ~o.ok THEN Response(500, "InvalidId", <<>>, <<>>)
      ELSE IF ~ok THEN StorageError
      ELSE IF docs = <<>> THEN Response(500, "404: Product not found", <<>>, <<>>)
      ELSE Response(200, "", <<>>, <<WithId(docs[1])>>)

\* GET /api/products/{product_id}: the HTTPException(404) raised inside the
\* try block is an Exception, so the except clause turns it into a 500
get_product(coll, product_id, ok) ==
  LET o == ObjectId(product_id)
      docs == get_documents(coll, [EmptyFilter EXCEPT !["_id"] = Some(o.oid)], 1)
  IN  IF ~o.ok THEN Response(500, "InvalidId", <<>>, <<>>)
      ELSE IF ~ok THEN StorageError
      ELSE IF docs = <<>> THEN Response(500, "404: Product not found", <<>>, <<>>)
      ELSE Response(200, "", <<>>, <<WithId(docs[1])>>)

ProductIdInputs ==
  {OidStr(NewOid(n)) : n \in 1..nextId}
    \cup {UpperStr(OidStr(NewOid(1)))} \cup MalformedIds

GetProduct ==
  /\ \E product_id \in ProductIdInputs, ok \in BOOLEAN :
       /\ req' = [NoReq EXCEPT !.op = "get_product", !.product_id = product_id]
       /\ resp' = get_product(products, product_id, ok)
  /\ seedRun' = NoRun
  /\ UNCHANGED <<products, orders, nextId, pc, idx, inserted>>

\* the seed gate never finding anything
AlreadySeeded_never(coll) == FALSE

\* the seed gate looking for the sample records instead of any document
AlreadySeeded_samples(coll) ==
  \E i \in 1..Len(coll) : \E k \in 1..NumSamples :
     coll[i].title = sample_products[k].title

\* the seed gate looking for a full set of records
AlreadySeeded_full(coll) == Len(coll) >= NumSamples

\* seed_products: "existing = get_documents("product", {}, 1); if existing:"
AlreadySeeded(coll) == get_documents(coll, EmptyFilter, 1) # <<>>

\* the loop inserting the first sample at every iteration
SampleAt_first(i) == sample_products[1]

\* the p of "for p in sample_products" at loop index i
SampleAt(i) == sample_products[i]

RunAfter(n) ==
  IF seedRun.n = 0 THEN [n |-> 1, first |-> n] ELSE [n |-> 2, first |-> seedRun.first]

\* POST /api/seed, up to the emptiness check
SeedCheck(t) ==
  /\ pc[t] = "idle"
  /\ req' = [NoReq EXCEPT !.op = "seed_products", !.worker = t]
  /\ \E ok \in BOOLEAN :
       \/ /\ ~ok
          /\ resp' = StorageError
          /\ seedRun' = NoRun
          /\ UNCHANGED <<pc, idx>>
       \/ /\ ok /\ AlreadySeeded(products)
          /\ resp' = Response(200, "Products already seeded", <<>>, <<>>)
          /\ seedRun' = RunAfter(Len(products))
          /\ UNCHANGED <<pc, idx>>
       \/ /\ ok /\ ~AlreadySeeded(products)
          /\ pc' = [pc EXCEPT ![t] = "insert"]
          /\ idx' = [idx EXCEPT ![t] = 1]
          /\ UNCHANGED <<resp, seedRun>>
  /\ UNCHANGED <<products, orders, nextId, inserted>>

\* POST /api/seed, one iteration of the insert loop
SeedInsert(t) ==
  /\ pc[t] = "insert"
  /\ req' = [NoReq EXCEPT !.op = "seed_products", !.worker = t]
  /\ \E ok \in BOOLEAN :
       \/ /\ ~ok
          /\ resp' = StorageError
          /\ seedRun' = NoRun
          /\ pc' = [pc EXCEPT ![t] = "idle"]
          /\ idx' = [idx EXCEPT ![t] = 0]
          /\ UNCHANGED <<products, nextId, inserted>>
       \/ /\ ok
          /\ products' = create_document(products, SampleAt(idx[t]), nextId)
          /\ nextId' = nextId + 1
          /\ inserted' = [inserted EXCEPT ![t] = @ + 1]
          /\ IF idx[t] = NumSamples
               THEN /\ pc' = [pc EXCEPT ![t] = "idle"]
                    /\ idx' = [idx EXCEPT ![t] = 0]
                    /\ resp' = Response(200, "Seeded sample products", <<>>, <<>>)
                    /\ seedRun' = RunAfter(Len(products'))
               ELSE /\ idx' = [idx EXCEPT ![t] = @ + 1]
                    /\ UNCHANGED <<pc, resp, seedRun>>
  /\ UNCHANGED orders

\* the client takes the response; the next request can be sent
Deliver ==
  /\ resp # NoResponse
  /\ resp' = NoResponse
  /\ req' = NoReq
  /\ UNCHANGED <<products, orders, nextId, pc, idx, inserted, seedRun>>

(* --------------------------- specifications --------------------------- *)
\* no request in progress and no response waiting to be taken
Ready == AllIdle /\ resp = NoResponse

\* requests sent one at a time, each after the previous response
Next ==
  \/ Ready /\ CreateProduct
  \/ Ready /\ CreateOrder
  \/ Ready /\ ListProducts
  \/ Ready /\ GetProduct
  \/ Ready /\ SeedCheck(1)
  \/ SeedInsert(1)
  \/ Deliver

Spec == Init /\ [][Next]_vars

\* seed calls running on all workers at the same time
NextConc ==
  \/ \E t \in Workers : SeedCheck(t)
  \/ \E t \in Workers : SeedInsert(t)

SpecConc == Init /\ [][NextConc]_vars

(* ------------------------------- claims ------------------------------- *)
\* literal, case-insensitive occurrence of the term q in a text
Contains(q, text) ==
  \E s \in 0..(Len(text) - Len(q)) :
     \A j \in 1..Len(q) : Lower(q[j]) = Lower(text[s + j])

\* the listing predicate as the specification words it
ListingPredicate(d, category, q) ==
  /\ (category = None \/ d.category = category[1])
  /\ \/ q = None
     \/ Contains(q[1], d.title)
     \/ (d.description # None /\ Contains(q[1], d.description[1]))
     \/ (d.tags # None /\ \E k \in 1..Len(d.tags[1]) : Contains(q[1], d.tags[1][k]))

\* number of stored products whose fields are those of sample i
Copies(i) ==
  Cardinality({j \in 1..Len(products) : Fields(products[j]) = sample_products[i]})

\* a seed call of some worker has failed after storing some of the samples
PartialFailure ==
  \E t \in Workers : pc[t] = "idle" /\ inserted[t] > 0 /\ inserted[t] < NumSamples

\* the request carries a numeric field below its lower bound
BelowLowerBound(r) ==
  \/ /\ r.op = "create_product"
     /\ \/ r.product[1].price < 0
        \/ (r.product[1].protein_grams # None /\ r.product[1].protein_grams[1] < 0)
        \/ (r.product[1].calories # None /\ r.product[1].calories[1] < 0)
  \/ /\ r.op = "create_order"
     /\ \/ r.order[1].subtotal < 0
        \/ r.order[1].tax < 0
        \/ r.order[1].total < 0
        \/ \E i \in 1..Len(r.order[1].items) :
              r.order[1].items[i].price < 0 \/ r.order[1].items[i].quantity < 1

\* C1: when two seed calls complete one after the other, with no other
\* request between them and no storage failure, the number of product
\* documents after the second equals the number after the first
C1_SeedIdempotent == seedRun.n = 2 => Len(products) = seedRun.first

C1_Witness ==
  seedRun.n = 2 /\ inserted[1] = NumSamples /\ Len(products) = seedRun.first

\* C2: seed calls that both found the collection empty and both ran their
\* insert loop to the end leave every sample record stored once per such
\* call, hence twice for two concurrent calls
C2_ConcurrentSeedDuplicates ==
  (\E t1, t2 \in Workers :
      t1 # t2 /\ inserted[t1] = NumSamples /\ inserted[t2] = NumSamples)
  => \A i \in 1..NumSamples :
        /\ Copies(i) = Cardinality({t \in Workers : inserted[t] >= i})
        /\ Copies(i) >= 2

C2_Witness ==
  /\ inserted[1] = NumSamples
  /\ inserted[2] = NumSamples
  /\ \A t \in Workers : t > 2 => inserted[t] = 0
  /\ Len(products) = 2 * NumSamples
  /\ \A i \in 1..NumSamples : Copies(i) = 2

\* C3: GET /api/products/{id} with a well-formed identifier that no stored
\* product has answers with status 404
C3_NotFoundIs404 ==
  ( /\ req.op = "get_product"
    /\ ObjectIdValid(req.product_id)
    /\ \A i \in 1..Len(products) : products[i]["_id"] # ObjectId(req.product_id).oid
    /\ resp.detail # "StorageUnavailable" )
  => resp.status = 404

\* C4: GET /api/products/{id} with an identifier that cannot be decoded is
\* answered with an error response whose status differs from the one given
\* to a well-formed identifier that no stored product has
C4_InvalidIdDistinct ==
  (req.op = "get_product" /\ ~ObjectIdValid(req.product_id))
  => /\ resp.status >= 400
     /\ resp.status # get_product(products, OidStr(NewOid(nextId)), TRUE).status

\* C5: a successful create of a product returns an identifier that no
\* product stored before has, and looking that identifier up returns exactly
\* one document with the fields of the payload and that identifier
C5_RoundTrip ==
  [][ (req'.op = "create_product" /\ resp'.status = 200) =>
        /\ \A i \in 1..Len(products) : OidStr(products[i]["_id"]) # resp'.id
        /\ get_product(products', resp'.id, TRUE).status = 200
        /\ Len(get_product(products', resp'.id, TRUE).items) = 1
        /\ get_product(products', resp'.id, TRUE).items[1].id = resp'.id
        /\ Fields(get_product(products', resp'.id, TRUE).items[1]) = req'.product[1]
    ]_vars

C5_Witness ==
  /\ req.op = "create_product"
  /\ resp.status = 200
  /\ Len(products) > NumSamples
  /\ OidStr(products[Len(products)]["_id"]) = resp.id

\* C6: every item of a product listing satisfies (category not supplied or
\* equal to the item's category) and (q not supplied or q occurs, ignoring
\* case, in the item's title, description or tags)
C6_ListingPredicate ==
  (req.op = "list_products" /\ resp.status = 200)
  => \A i \in 1..Len(resp.items) :
        ListingPredicate(resp.items[i], req.category, req.q)

\* C7: a product listing returns at most limit items
C7_LimitEnforced ==
  (req.op = "list_products" /\ resp.status = 200)
  => Len(resp.items) <= req.limit

C7_Witness ==
  /\ req.op = "list_products"
  /\ resp.status = 200
  /\ req.limit > 0
  /\ Len(resp.items) = req.limit
  /\ Len(list_products(products, req.category, req.q, DefaultLimit)) > req.limit

\* C8: a seed call that starts while the product collection holds a
\* document returns without entering its insert loop and leaves the
\* collection as it was
C8_SeedGatedOnAnyDocument ==
  [][ (req'.op = "seed_products" /\ pc[req'.worker] = "idle" /\ products # <<>>) =>
        /\ products' = products
        /\ pc'[req'.worker] = "idle"
        /\ inserted' = inserted
    ]_vars

C8_Witness ==
  /\ req.op = "seed_products"
  /\ resp.detail = "Products already seeded"
  /\ Created = 1
  /\ Len(products) = 1

\* C9: a create whose payload has a numeric field below its lower bound is
\* rejected and leaves both collections as they were
C9_RejectedCreateWritesNothing ==
  [][ BelowLowerBound(req') =>
        /\ resp'.status = 422
        /\ products' = products
        /\ orders' = orders
    ]_vars

C9_Witness ==
  /\ req.op = "create_order"
  /\ resp.status = 422
  /\ Len(req.order[1].items) = 2
  /\ req.order[1].items[1].quantity >= 1
  /\ req.order[1].items[1].price >= 0
  /\ req.order[1].items[2].quantity < 1

\* C10: a seed call that fails inside its insert loop answers 500 and the
\* records it stored stay; once a call has failed part-way, no seed call
\* that starts afterwards inserts anything
C10_PartialSeedSticks ==
  [][ /\ \A t \in Workers :
           (pc[t] = "insert" /\ pc'[t] = "idle" /\ inserted'[t] = inserted[t]) =>
              /\ resp'.status = 500
              /\ products' = products
              /\ \A i \in 1..inserted[t] : Copies(i) >= 1
      /\ PartialFailure =>
           \A t \in Workers :
              pc[t] = "idle" => (pc'[t] = "idle" /\ inserted'[t] = inserted[t])
    ]_vars

C10_Witness ==
  /\ PartialFailure
  /\ AllIdle
  /\ Len(products) < NumSamples
  /\ req.op = "seed_products"
  /\ resp.detail = "Products already seeded"

=============================================================================
